---- MODULE Spec2Model ----
(***************************************************************************)
(* flask-nav: the element registry (ElementRegistry), the renderer         *)
(* registry kept in app.extensions['nav_renderers'] (register_renderer,    *)
(* get_renderer) and the extension object (Nav) of flask_nav/__init__.py.  *)
(*                                                                         *)
(* Python values are records tagged by "kind".  The dict of an element     *)
(* registry is the sequence of its items in insertion order, the order     *)
(* __iter__ reads; app.extensions and the renderers, which nothing         *)
(* iterates over, are functions.  Every operation leaves its outcome (the  *)
(* value returned or the exception raised) in the variable "last".  The    *)
(* module is taken as imported by a Python that still has                  *)
(* collections.MutableMapping.                                             *)
(***************************************************************************)
EXTENDS Integers, Sequences, FiniteSets, TLC

VARIABLES
    elems,            \* Nav -> the _elems dict of its ElementRegistry
    calls,            \* factory -> number of times it has been invoked
    hasExtensions,    \* whether the application object has an "extensions" attribute
    extensions,       \* app.extensions: a dict (empty while the attribute is absent)
    template_globals, \* the names the application exposes to templates
    attrs,            \* the importable namespaces: <<owner, attribute>> -> object
    lastSet,          \* history: per Nav and key, the value of the latest set, or Absent
    regHist,          \* history: per renderer id, the register_renderer calls that returned
    last              \* the latest operation and its outcome

vars == <<elems, calls, hasExtensions, extensions, template_globals, attrs,
          lastSet, regHist, last>>

-----------------------------------------------------------------------------
(* Bounds *)

\* A factory is invoked at most MaxCalls times in a behaviour.
MaxCalls == 2

-----------------------------------------------------------------------------
(* Python values *)

None == [kind |-> "None"]
Obj(name) == [kind |-> "obj", name |-> name]
Func(name) == [kind |-> "func", name |-> name]
Str(chars) == [kind |-> "str", chars |-> chars]
Tuple(items) == [kind |-> "tuple", items |-> items]
PyInt(n) == [kind |-> "int", n |-> n]

NoExc == "none"
Absent == [kind |-> "absent"]

Outcome(exc, ret) == [exc |-> exc, ret |-> ret]
Returns(ret) == Outcome(NoExc, ret)
Raises(exc) == Outcome(exc, None)

\* callable(item): of the values of this model only functions are callable.
callable(item) == item.kind = "func"

\* isinstance(renderer, tuple)
IsTuple(renderer) == renderer.kind = "tuple"

-----------------------------------------------------------------------------
(* dict: the sequence of its items, in insertion order *)

EmptyDict == <<>>

DictKeys(d) == {d[i].key : i \in 1..Len(d)}

DictIndex(d, k) == CHOOSE i \in 1..Len(d) : d[i].key = k

\* d[k] for a key that is present
DictGet(d, k) == d[DictIndex(d, k)].value

\* d[k] = v: a present key keeps its position, a new key goes last
DictSet(d, k, v) ==
    IF k \in DictKeys(d)
    THEN [d EXCEPT ![DictIndex(d, k)] = [key |-> k, value |-> v]]
    ELSE Append(d, [key |-> k, value |-> v])

\* del d[k] for a key that is present
DictDel(d, k) ==
    LET i == DictIndex(d, k)
    IN  SubSeq(d, 1, i - 1) \o SubSeq(d, i + 1, Len(d))

-----------------------------------------------------------------------------
(* The objects of the model *)

Navs == {"nav1", "nav2"}
Keys == {"main", "side"}

Factories == {"f1", "f2"}

\* What the n-th invocation (counted from 0) of a factory returns: f1 builds
\* the same list every time, f2 a value that differs from call to call.
FactoryResult(f, n) ==
    IF f = "f1" THEN Obj("list") ELSE [kind |-> "obj", name |-> "item", serial |-> n + 1]

PlainElems == {Obj("link"), Obj("menu")}
ElemValues == PlainElems \cup {Func(f) : f \in Factories}

NavRef(n) == [kind |-> "Nav", name |-> n]
RegistryRef(n) == [kind |-> "ElementRegistry", owner |-> n]

-----------------------------------------------------------------------------
(* ElementRegistry *)

\* ElementRegistry.__init__
ElementRegistry__init__ == EmptyDict

\* A __getitem__ that invokes a factory once and keeps its result.
GetItemMemo(d, key, c) ==
    IF key \notin DictKeys(d)
    THEN [out |-> Raises("KeyError"), calls |-> c]
    ELSE LET item == DictGet(d, key)
         IN  IF callable(item)
             THEN [out |-> Returns(FactoryResult(item.name, 0)),
                   calls |-> IF c[item.name] = 0
                             THEN [c EXCEPT ![item.name] = 1] ELSE c]
             ELSE [out |-> Returns(item), calls |-> c]

\* ElementRegistry.__getitem__ on the dict d, with the factories' invocation
\* counts c: the outcome and the counts afterwards.
GetItem(d, key, c) ==
    IF key \notin DictKeys(d)
    THEN [out |-> Raises("KeyError"), calls |-> c]
    ELSE LET item == DictGet(d, key)
         IN  IF callable(item)
             THEN [out |-> Returns(FactoryResult(item.name, c[item.name])),
                   calls |-> [c EXCEPT ![item.name] = @ + 1]]
             ELSE [out |-> Returns(item), calls |-> c]

\* The invocation a lookup would make stays within MaxCalls.
WithinCalls(d, key, c) ==
    (key \in DictKeys(d) /\ callable(DictGet(d, key))) => c[DictGet(d, key).name] < MaxCalls

\* The first key of the dict, the one "for key in self._elems.keys()" starts with.
FirstKey(d) == d[1].key

\* ElementRegistry.__iter__: what the method returns.  The return statement
\* inside the loop ends the method at the first key; with no key the loop
\* body never runs and the method returns None.
RegistryIter(d, c) ==
    IF Len(d) = 0
    THEN [out |-> Returns(None), calls |-> c]
    ELSE GetItem(d, FirstKey(d), c)

\* iter(registry): Python accepts from __iter__ only an iterator, and no
\* element or factory result of this model is one, so the value __iter__
\* returns is rejected with TypeError; an exception of __getitem__ passes through.
IterOutcome(res) ==
    IF res.out.exc # NoExc THEN res.out ELSE Raises("TypeError")

\* A __setitem__ that keeps the value a key already has.
SetItemKeepFirst(d, key, value) ==
    IF key \in DictKeys(d) THEN d ELSE DictSet(d, key, value)

\* ElementRegistry.__setitem__
SetItem(d, key, value) == DictSet(d, key, value)

\* ElementRegistry.__len__
RegistryLen(d) == Len(d)

\* registry[key]
ElementRegistry__getitem__(n, key) ==
    /\ WithinCalls(elems[n], key, calls)
    /\ LET res == GetItem(elems[n], key, calls)
       IN  /\ calls' = res.calls
           /\ last' = [op |-> "getitem", nav |-> n, key |-> key,
                       exc |-> res.out.exc, ret |-> res.out.ret]
    /\ UNCHANGED <<elems, hasExtensions, extensions, template_globals, attrs,
                   lastSet, regHist>>

\* registry[key] = value
ElementRegistry__setitem__(n, key, value) ==
    /\ elems' = [elems EXCEPT ![n] = SetItem(@, key, value)]
    /\ lastSet' = [lastSet EXCEPT ![n][key] = value]
    /\ last' = [op |-> "setitem", nav |-> n, key |-> key, exc |-> NoExc, ret |-> None]
    /\ UNCHANGED <<calls, hasExtensions, extensions, template_globals, attrs, regHist>>

\* del registry[key] that ignores a missing key, as self._elems.pop(key, None) would
DelItemIgnoreMissing(n, key) ==
    /\ elems' = [elems EXCEPT ![n] = IF key \in DictKeys(@) THEN DictDel(@, key) ELSE @]
    /\ lastSet' = [lastSet EXCEPT ![n][key] = Absent]
    /\ last' = [op |-> "delitem", nav |-> n, key |-> key, exc |-> NoExc, ret |-> None]
    /\ UNCHANGED <<calls, hasExtensions, extensions, template_globals, attrs, regHist>>

\* ElementRegistry.__delitem__
ElementRegistry__delitem__(n, key) ==
    /\ IF key \in DictKeys(elems[n])
       THEN /\ elems' = [elems EXCEPT ![n] = DictDel(@, key)]
            /\ lastSet' = [lastSet EXCEPT ![n][key] = Absent]
            /\ last' = [op |-> "delitem", nav |-> n, key |-> key,
                        exc |-> NoExc, ret |-> None]
       ELSE /\ last' = [op |-> "delitem", nav |-> n, key |-> key,
                        exc |-> "KeyError", ret |-> None]
            /\ UNCHANGED <<elems, lastSet>>
    /\ UNCHANGED <<calls, hasExtensions, extensions, template_globals, attrs, regHist>>

\* iter(registry), followed by taking every item the iterator yields: "items"
\* are the items obtained, none when iter() raises.
ElementRegistry__iter__(n) ==
    /\ Len(elems[n]) > 0 => WithinCalls(elems[n], FirstKey(elems[n]), calls)
    /\ LET res == RegistryIter(elems[n], calls)
           out == IterOutcome(res)
       IN  /\ calls' = res.calls
           /\ last' = [op |-> "iter", nav |-> n, key |-> "",
                       exc |-> out.exc, ret |-> out.ret, items |-> <<>>]
    /\ UNCHANGED <<elems, hasExtensions, extensions, template_globals, attrs,
                   lastSet, regHist>>

\* len(registry)
ElementRegistry__len__(n) ==
    /\ last' = [op |-> "len", nav |-> n, key |-> "", exc |-> NoExc,
                ret |-> PyInt(RegistryLen(elems[n]))]
    /\ UNCHANGED <<elems, calls, hasExtensions, extensions, template_globals, attrs,
                   lastSet, regHist>>

-----------------------------------------------------------------------------
(* Strings: a str is the sequence of its characters *)

RECURSIVE Split(_, _)
\* chars.split(sep) for a one-character separator: the pieces between the
\* separators, empty pieces included; a string without separator is one piece.
Split(chars, sep) ==
    IF \A i \in 1..Len(chars) : chars[i] # sep
    THEN <<chars>>
    ELSE LET i == CHOOSE j \in 1..Len(chars) :
                      chars[j] = sep /\ \A h \in 1..(j - 1) : chars[h] # sep
         IN  <<SubSeq(chars, 1, i - 1)>> \o Split(SubSeq(chars, i + 1, Len(chars)), sep)

\* __name__ of the package
PackageName == <<"f", "l", "a", "s", "k", "_", "n", "a", "v">>

\* (__name__ + '.renderers', 'SimpleRenderer')
SimpleRendererName ==
    <<"S", "i", "m", "p", "l", "e", "R", "e", "n", "d", "e", "r", "e", "r">>
simple ==
    Tuple(<<Str(PackageName \o <<".", "r", "e", "n", "d", "e", "r", "e", "r", "s">>),
            Str(SimpleRendererName)>>)

-----------------------------------------------------------------------------
(* The namespaces import_module and getattr read *)

Missing == "missing"

\* import_module(mod_name): the module object, or Missing (ImportError).
\* "p.m" is an application module, the other one the bundled renderers module.
ImportModule(mod_name) ==
    IF mod_name = <<"p", ".", "m">> THEN "module_p_m"
    ELSE IF mod_name = simple.items[1].chars THEN "module_renderers"
    ELSE Missing

\* The attributes an environment step may rebind, and what each may hold.
AttrChoices ==
    (<<"module_p_m", <<"A">>>> :> {"A1", "A2", Missing})

\* The bundled module flask_nav.renderers: it has the class SimpleRenderer.
BundledRenderers ==
    (<<"module_renderers", SimpleRendererName>> :> "SimpleRenderer")

\* The namespaces at start: p.m has A, the classes A1 and A2 have their own
\* B, and the bundled module is as shipped.
InitAttrs ==
    (<<"module_p_m", <<"A">>>> :> "A1") @@
    (<<"A1", <<"B">>>> :> "A1.B") @@
    (<<"A2", <<"B">>>> :> "A2.B") @@
    BundledRenderers

\* getattr(owner, name) in the namespaces at: the object, or Missing (AttributeError)
GetAttr(at, owner, name) ==
    IF <<owner, name>> \in DOMAIN at THEN at[<<owner, name>>] ELSE Missing

RECURSIVE WalkRev(_, _, _)
\* The walk along the names taken from the last to the first.
WalkRev(at, cls, names) ==
    IF names = <<>> THEN cls
    ELSE LET nxt == GetAttr(at, cls, names[Len(names)])
         IN  IF nxt = Missing THEN Missing
             ELSE WalkRev(at, nxt, SubSeq(names, 1, Len(names) - 1))

RECURSIVE Walk(_, _, _)
\* for name in names: cls = getattr(cls, name)
Walk(at, cls, names) ==
    IF names = <<>> THEN cls
    ELSE LET nxt == GetAttr(at, cls, Head(names))
         IN  IF nxt = Missing THEN Missing ELSE Walk(at, nxt, Tail(names))

-----------------------------------------------------------------------------
(* Renderers *)

\* Renderer ids; NoneId stands for the id None of the default renderer.
NoneId == "None"
RendererIds == {"simple", NoneId, "x"}

RendererA == Obj("RendererA")
\* a renderer that is itself a tuple, but no (module, path) pair
TripleRenderer == Tuple(<<Obj("a"), Obj("b"), Obj("c")>>)
DeferredAB == Tuple(<<Str(<<"p", ".", "m">>), Str(<<"A", ".", "B">>)>>)
DeferredA == Tuple(<<Str(<<"p", ".", "m">>), Str(<<"A">>)>>)
DeferredBA == Tuple(<<Str(<<"p", ".", "m">>), Str(<<"B", ".", "A">>)>>)
DeferredGap == Tuple(<<Str(<<"p", ".", "m">>), Str(<<"A", ".", ".", "B">>)>>)
DeferredEmpty == Tuple(<<Str(<<"p", ".", "m">>), Str(<<>>)>>)
DeferredNoModule == Tuple(<<Str(<<"n", "o">>), Str(<<"A">>)>>)

\* A deferred reference: a pair of a module name and a dotted attribute path.
IsDeferred(r) ==
    /\ r.kind = "tuple"
    /\ Len(r.items) = 2
    /\ r.items[1].kind = "str"
    /\ r.items[2].kind = "str"

\* The dicts without iteration order in what follows are functions.
EmptyMap == <<>>
MapSet(m, k, v) == (k :> v) @@ m
MapSetDefault(m, k, v) == IF k \in DOMAIN m THEN m ELSE MapSet(m, k, v)

\* app.extensions.get('nav_renderers', {})
Renderers(ext) ==
    IF "nav_renderers" \in DOMAIN ext THEN ext["nav_renderers"] ELSE EmptyMap

\* A register_renderer that ignores force.
RegisterNeverOverwrite(ext, id, renderer, force) ==
    MapSet(ext, "nav_renderers", MapSetDefault(Renderers(ext), id, renderer))

\* register_renderer on an application that has app.extensions: the
\* extensions afterwards.
RegisterRenderer(ext, id, renderer, force) ==
    LET renderers == Renderers(ext)
    IN  MapSet(ext, "nav_renderers",
               IF force
               THEN MapSet(renderers, id, renderer)
               ELSE MapSetDefault(renderers, id, renderer))

\* The history of the calls of register_renderer that returned, per id: the
\* renderer of the first call and the renderer of the latest forced call.
NoHist == [first |-> Absent, forced |-> Absent]
Record(h, id, renderer, force) ==
    [h EXCEPT ![id] = [first |-> IF @.first = Absent THEN renderer ELSE @.first,
                       forced |-> IF force THEN renderer ELSE @.forced]]

\* A resolution that walks the path from its last name to its first.
ResolveRightToLeft(at, renderer) ==
    IF Len(renderer.items) # 2
    THEN [exc |-> "ValueError", ret |-> None, imports |-> 0]
    ELSE LET mod == ImportModule(renderer.items[1].chars)
         IN  IF mod = Missing
             THEN [exc |-> "ImportError", ret |-> None, imports |-> 1]
             ELSE LET cls == WalkRev(at, mod, Split(renderer.items[2].chars, "."))
                  IN  IF cls = Missing
                      THEN [exc |-> "AttributeError", ret |-> None, imports |-> 1]
                      ELSE [exc |-> NoExc, ret |-> Obj(cls), imports |-> 1]

\* The resolution of the tuple get_renderer found under an id: the unpacking
\* into two names, import_module, and the walk along the split path.
Resolve(at, renderer) ==
    IF Len(renderer.items) # 2
    THEN [exc |-> "ValueError", ret |-> None, imports |-> 0]
    ELSE LET mod == ImportModule(renderer.items[1].chars)
         IN  IF mod = Missing
             THEN [exc |-> "ImportError", ret |-> None, imports |-> 1]
             ELSE LET cls == Walk(at, mod, Split(renderer.items[2].chars, "."))
                  IN  IF cls = Missing
                      THEN [exc |-> "AttributeError", ret |-> None, imports |-> 1]
                      ELSE [exc |-> NoExc, ret |-> Obj(cls), imports |-> 1]

\* A get_renderer without its final "return renderer".
GetRendererDropDirect(has, ext, at, id) ==
    IF ~has
    THEN [exc |-> "AttributeError", ret |-> None, imports |-> 0]
    ELSE IF id \notin DOMAIN Renderers(ext)
    THEN [exc |-> "KeyError", ret |-> None, imports |-> 0]
    ELSE LET renderer == Renderers(ext)[id]
         IN  IF IsTuple(renderer)
             THEN Resolve(at, renderer)
             ELSE [exc |-> NoExc, ret |-> None, imports |-> 0]

\* get_renderer: the outcome, with the number of import_module calls made.
GetRenderer(has, ext, at, id) ==
    IF ~has
    THEN [exc |-> "AttributeError", ret |-> None, imports |-> 0]
    ELSE IF id \notin DOMAIN Renderers(ext)
    THEN [exc |-> "KeyError", ret |-> None, imports |-> 0]
    ELSE LET renderer == Renderers(ext)[id]
         IN  IF IsTuple(renderer)
             THEN Resolve(at, renderer)
             ELSE [exc |-> NoExc, ret |-> renderer, imports |-> 0]

\* register_renderer(app, id, renderer, force)
register_renderer(id, renderer, force) ==
    /\ IF hasExtensions
       THEN /\ extensions' = RegisterRenderer(extensions, id, renderer, force)
            /\ regHist' = Record(regHist, id, renderer, force)
            /\ last' = [op |-> "register_renderer", id |-> id, renderer |-> renderer,
                        force |-> force, exc |-> NoExc, ret |-> None]
       ELSE /\ last' = [op |-> "register_renderer", id |-> id, renderer |-> renderer,
                        force |-> force, exc |-> "AttributeError", ret |-> None]
            /\ UNCHANGED <<extensions, regHist>>
    /\ UNCHANGED <<elems, calls, hasExtensions, template_globals, attrs, lastSet>>

\* get_renderer(app, id)
get_renderer(id) ==
    /\ LET out == GetRenderer(hasExtensions, extensions, attrs, id)
       IN  last' = [op |-> "get_renderer", id |-> id, exc |-> out.exc,
                    ret |-> out.ret, imports |-> out.imports]
    /\ UNCHANGED <<elems, calls, hasExtensions, extensions, template_globals, attrs,
                   lastSet, regHist>>

\* The application, or a test, rebinds an attribute of an importable namespace.
Rebind(slot, obj) ==
    /\ attrs[slot] # obj
    /\ attrs' = [attrs EXCEPT ![slot] = obj]
    /\ last' = [op |-> "rebind", exc |-> NoExc, ret |-> None]
    /\ UNCHANGED <<elems, calls, hasExtensions, extensions, template_globals,
                   lastSet, regHist>>

-----------------------------------------------------------------------------
(* Nav *)

\* An init_app that registers the default renderer with force.
InitExtensionsForceDefault(n, has, ext) ==
    LET ext0 == IF has THEN ext ELSE EmptyMap
        ext1 == MapSet(ext0, "nav", NavRef(n))
        ext2 == RegisterRenderer(ext1, "simple", simple, TRUE)
    IN  RegisterRenderer(ext2, NoneId, simple, TRUE)

\* Nav.init_app: app.extensions afterwards, from the extensions the
\* application had (none when the attribute was absent).
InitExtensions(n, has, ext) ==
    LET ext0 == IF has THEN ext ELSE EmptyMap
        ext1 == MapSet(ext0, "nav", NavRef(n))
        ext2 == RegisterRenderer(ext1, "simple", simple, TRUE)
    IN  RegisterRenderer(ext2, NoneId, simple, FALSE)

\* An init_app that exposes the Nav object instead of its registry.
TemplateGlobalNav(n, globals) == MapSet(globals, "nav", NavRef(n))

\* app.add_template_global(self.elems, 'nav'): the template globals afterwards
AddTemplateGlobal(n, globals) == MapSet(globals, "nav", RegistryRef(n))

\* Nav.init_app(app) on the Nav n
init_app(n) ==
    /\ hasExtensions' = TRUE
    /\ extensions' = InitExtensions(n, hasExtensions, extensions)
    /\ template_globals' = AddTemplateGlobal(n, template_globals)
    /\ regHist' = Record(Record(regHist, "simple", simple, TRUE), NoneId, simple, FALSE)
    /\ last' = [op |-> "init_app", nav |-> n, exc |-> NoExc, ret |-> None]
    /\ UNCHANGED <<elems, calls, attrs, lastSet>>

\* Nav.register_element
register_element(n, id, elem) ==
    /\ elems' = [elems EXCEPT ![n] = SetItem(@, id, elem)]
    /\ lastSet' = [lastSet EXCEPT ![n][id] = elem]
    /\ last' = [op |-> "register_element", nav |-> n, key |-> id, exc |-> NoExc,
                ret |-> None]
    /\ UNCHANGED <<calls, hasExtensions, extensions, template_globals, attrs, regHist>>

\* A template reads nav.<id>: the template global nav, then its __getitem__,
\* whose outcome is recorded (the template engine turns a KeyError into an
\* undefined value).
template_access(id) ==
    /\ "nav" \in DOMAIN template_globals
    /\ template_globals["nav"].kind = "ElementRegistry"
    /\ LET n == template_globals["nav"].owner
       IN  /\ WithinCalls(elems[n], id, calls)
           /\ LET res == GetItem(elems[n], id, calls)
              IN  /\ calls' = res.calls
                  /\ last' = [op |-> "template_access", nav |-> n, key |-> id,
                              exc |-> res.out.exc, ret |-> res.out.ret]
    /\ UNCHANGED <<elems, hasExtensions, extensions, template_globals, attrs,
                   lastSet, regHist>>

-----------------------------------------------------------------------------
(* Specifications *)

\* Another extension's entry in app.extensions.
OtherExtension == Obj("other_extension")

\* The state after the application object and the Nav objects are
\* constructed (Nav() without app): each Nav has its own empty registry; the
\* application has no extensions attribute, an empty one, or one that holds
\* another extension's state.
Init ==
    /\ elems = [n \in Navs |-> ElementRegistry__init__]
    /\ calls = [f \in Factories |-> 0]
    /\ \E e \in {"absent", "empty", "other"} :
          /\ hasExtensions = (e # "absent")
          /\ extensions = IF e = "other" THEN MapSet(EmptyMap, "other", OtherExtension)
                          ELSE EmptyMap
    /\ template_globals = EmptyMap
    /\ attrs = InitAttrs
    /\ lastSet = [n \in Navs |-> [k \in Keys |-> Absent]]
    /\ regHist = [id \in RendererIds |-> NoHist]
    /\ last = [op |-> "init", exc |-> NoExc, ret |-> None]

\* The element registry of one Nav alone.
NextRegistry ==
    \/ \E k \in Keys : ElementRegistry__getitem__("nav1", k)
    \/ \E k \in Keys, v \in ElemValues : ElementRegistry__setitem__("nav1", k, v)
    \/ \E k \in Keys : ElementRegistry__delitem__("nav1", k)
    \/ ElementRegistry__iter__("nav1")
    \/ ElementRegistry__len__("nav1")

SpecRegistry == Init /\ [][NextRegistry]_vars

\* The renderers an application registers: an object, a tuple that is no
\* (module, path) pair, and a deferred reference.
RegisteredRenderers == {RendererA, TripleRenderer, DeferredAB}

\* The renderer registry and the attachment of the extension.
NextRenderers ==
    \/ \E id \in RendererIds, r \in RegisteredRenderers, force \in BOOLEAN :
          register_renderer(id, r, force)
    \/ \E id \in RendererIds : get_renderer(id)
    \/ \E n \in Navs : init_app(n)

SpecRenderers == Init /\ [][NextRenderers]_vars

\* The deferred references an application registers.
DeferredRenderers ==
    {DeferredAB, DeferredA, DeferredBA, DeferredGap, DeferredEmpty, DeferredNoModule}

\* Deferred references and the namespaces they are resolved in.
NextResolve ==
    \/ \E r \in DeferredRenderers, force \in BOOLEAN :
          register_renderer("x", r, force)
    \/ \E id \in RendererIds : get_renderer(id)
    \/ \E slot \in DOMAIN AttrChoices : \E obj \in AttrChoices[slot] : Rebind(slot, obj)
    \/ \E n \in Navs : init_app(n)

SpecResolve == Init /\ [][NextResolve]_vars

\* The extension object, its elements and the templates.
NextNav ==
    \/ \E n \in Navs : init_app(n)
    \/ \E n \in Navs, k \in Keys, v \in {Obj("link"), Func("f1"), Func("f2")} :
          register_element(n, k, v)
    \/ \E k \in Keys : template_access(k)

SpecNav == Init /\ [][NextNav]_vars

-----------------------------------------------------------------------------
(* Properties of the element registry (SpecRegistry) *)

\* C1: a lookup of a key whose latest mutation is a set of a non-callable
\* value returns exactly that value, whatever was stored under the key before
\* and whatever happened to the other keys.
C1_LastWriteWins ==
    (last.op = "getitem" /\ lastSet[last.nav][last.key] \in PlainElems)
        => (last.exc = NoExc /\ last.ret = lastSet[last.nav][last.key])

\* A lookup returned "menu" from a registry that holds two keys.
C1_Witness ==
    /\ last.op = "getitem"
    /\ last.exc = NoExc
    /\ last.ret = Obj("menu")
    /\ Len(elems[last.nav]) = 2

\* C2: every lookup of a key that holds a factory invokes the factory exactly
\* once (its count rises by one, no other count changes), returns what that
\* invocation returns and not the factory, and leaves the stored entries, the
\* factory among them, and so the size as they are.
C2_LazyFactory ==
    [][(/\ last'.op = "getitem"
        /\ last'.key \in DictKeys(elems[last'.nav])
        /\ callable(DictGet(elems[last'.nav], last'.key)))
       => LET f == DictGet(elems[last'.nav], last'.key).name
          IN  /\ last'.exc = NoExc
              /\ last'.ret = FactoryResult(f, calls[f])
              /\ last'.ret # Func(f)
              /\ calls' = [calls EXCEPT ![f] = @ + 1]
              /\ elems' = elems
              /\ DictGet(elems'[last'.nav], last'.key) = Func(f)
              /\ RegistryLen(elems'[last'.nav]) = RegistryLen(elems[last'.nav])]_vars

\* The second lookup of a key that holds f2 returned the factory's second result.
C2_Witness ==
    /\ last.op = "getitem"
    /\ last.key \in DictKeys(elems[last.nav])
    /\ DictGet(elems[last.nav], last.key) = Func("f2")
    /\ calls["f2"] = 2
    /\ last.ret = FactoryResult("f2", 1)

\* C3: a lookup or a deletion of a key that is absent (never set, or deleted
\* since its latest set) raises KeyError and changes neither the entries nor
\* the size of the registry.
C3_MissingKey ==
    [][(/\ last'.op \in {"getitem", "delitem"}
        /\ lastSet[last'.nav][last'.key] = Absent)
       => (/\ last'.exc = "KeyError"
           /\ elems' = elems
           /\ RegistryLen(elems'[last'.nav]) = RegistryLen(elems[last'.nav])
           /\ lastSet' = lastSet)]_vars

\* A deletion failed on a key that is absent from a registry holding the other key.
C3_Witness ==
    /\ last.op = "delitem"
    /\ last.exc = "KeyError"
    /\ last.key \notin DictKeys(elems[last.nav])
    /\ Len(elems[last.nav]) = 1

\* C10: iterating over the registry raises nothing and yields one item per
\* stored key, in insertion order, each item being what a lookup of the key
\* returns; over an empty registry it yields nothing and ends.
C10_IterateAll ==
    last.op = "iter"
        => /\ last.exc = NoExc
           /\ Len(last.items) = Len(elems[last.nav])
           /\ \A i \in 1..Len(last.items) :
                 LET v == elems[last.nav][i].value
                 IN  IF callable(v)
                     THEN \E c \in 0..MaxCalls : last.items[i] = FactoryResult(v.name, c)
                     ELSE last.items[i] = v

-----------------------------------------------------------------------------
(* Properties of the renderer registry (SpecRenderers, SpecResolve) *)

\* The renderer the calls made for an id call for: the one of the latest
\* forced call, or without a forced call the one of the first call.
Expected(h) == IF h.forced # Absent THEN h.forced ELSE h.first

\* C4: an id for which register_renderer was called holds the renderer of the
\* latest forced call, or the renderer of the first call when no call was
\* forced; an id for which it was never called holds nothing (so a call for
\* one id changes no other id).
C4_ForceSemantics ==
    \A id \in RendererIds :
        IF regHist[id].first = Absent
        THEN id \notin DOMAIN Renderers(extensions)
        ELSE /\ hasExtensions
             /\ id \in DOMAIN Renderers(extensions)
             /\ Renderers(extensions)[id] = Expected(regHist[id])

\* A call without force has just left alone an id that holds the renderer of
\* a forced call, which had replaced the first one.
C4_Witness ==
    /\ last.op = "register_renderer"
    /\ last.exc = NoExc
    /\ ~last.force
    /\ regHist[last.id].forced # Absent
    /\ regHist[last.id].forced # regHist[last.id].first
    /\ last.renderer # regHist[last.id].forced
    /\ last.renderer # regHist[last.id].first
    /\ Renderers(extensions)[last.id] = regHist[last.id].forced

\* C5: get_renderer for an id that was never registered raises KeyError,
\* also when nothing at all was registered on the application.
C5_KeyNotFound ==
    (last.op = "get_renderer" /\ regHist[last.id].first = Absent)
        => last.exc = "KeyError"

\* What importing the module and reading the attributes by hand gives for
\* each deferred reference of the model, in the namespaces at: p.m.A, p.m.A.B
\* and the bundled SimpleRenderer exist as far as the namespaces hold them;
\* p.m has no B, no name is empty, and there is no module "no".
C6_ByHand(at, r) ==
    LET A == at[<<"module_p_m", <<"A">>>>]
    IN  CASE r = DeferredA -> A
          [] r = DeferredAB -> IF A = Missing THEN Missing ELSE at[<<A, <<"B">>>>]
          [] r = simple -> at[<<"module_renderers", SimpleRendererName>>]
          [] OTHER -> Missing

\* C6: get_renderer for an id that holds a deferred reference returns what
\* importing the module and reading the path's attributes from left to right
\* gives in the namespaces as they are at the lookup, and raises ImportError
\* or AttributeError, returning nothing, when the module or a name of the
\* path is missing; the lookup leaves the stored reference as it is.
C6_DeferredResolution ==
    /\ []((/\ last.op = "get_renderer"
           /\ last.id \in DOMAIN Renderers(extensions)
           /\ IsDeferred(Renderers(extensions)[last.id]))
          => LET want == C6_ByHand(attrs, Renderers(extensions)[last.id])
             IN  IF want = Missing
                 THEN last.exc \in {"ImportError", "AttributeError"} /\ last.ret = None
                 ELSE last.exc = NoExc /\ last.ret = Obj(want))
    /\ [][last'.op = "get_renderer"
          => (extensions' = extensions /\ hasExtensions' = hasExtensions)]_vars

\* A lookup of the reference (p.m, A.B) returned the B of the class that p.m.A
\* was rebound to.
C6_Witness ==
    /\ last.op = "get_renderer"
    /\ last.id \in DOMAIN Renderers(extensions)
    /\ Renderers(extensions)[last.id] = DeferredAB
    /\ last.ret = Obj("A2.B")

\* C7, as claimed: get_renderer returns every stored renderer that is no
\* deferred reference as it is, without an import and without an exception.
C7_DirectVerbatim ==
    (/\ last.op = "get_renderer"
     /\ last.id \in DOMAIN Renderers(extensions)
     /\ ~IsDeferred(Renderers(extensions)[last.id]))
        => (/\ last.exc = NoExc
            /\ last.ret = Renderers(extensions)[last.id]
            /\ last.imports = 0)

\* C7, amended: get_renderer returns every stored renderer that is not a
\* tuple as it is, without an import and without an exception.
C7_NonTupleVerbatim ==
    (/\ last.op = "get_renderer"
     /\ last.id \in DOMAIN Renderers(extensions)
     /\ ~IsTuple(Renderers(extensions)[last.id]))
        => (/\ last.exc = NoExc
            /\ last.ret = Renderers(extensions)[last.id]
            /\ last.imports = 0)

\* A lookup returned the renderer object registered under the id.
C7_Witness ==
    /\ last.op = "get_renderer"
    /\ last.id \in DOMAIN Renderers(extensions)
    /\ Renderers(extensions)[last.id] = RendererA
    /\ last.ret = RendererA

\* C8: after init_app, "simple" holds the bundled deferred reference, the
\* default id holds what it held before, or the bundled reference if it held
\* nothing, and no other id has changed; when there was no default before,
\* the lookups of "simple" and of the default id both give what the bundled
\* reference resolves to; and init_app once more would leave the renderers
\* as they are.
C8_AttachRenderers ==
    [][last'.op = "init_app"
       => LET before == Renderers(extensions)
              after == Renderers(extensions')
              viaSimple == GetRenderer(hasExtensions', extensions', attrs', "simple")
              viaDefault == GetRenderer(hasExtensions', extensions', attrs', NoneId)
          IN  /\ DOMAIN after = DOMAIN before \cup {"simple", NoneId}
              /\ after["simple"] = simple
              /\ after[NoneId] = IF NoneId \in DOMAIN before THEN before[NoneId] ELSE simple
              /\ \A id \in DOMAIN before \ {"simple", NoneId} : after[id] = before[id]
              /\ NoneId \notin DOMAIN before
                    => (/\ viaSimple = viaDefault
                        /\ viaSimple = Resolve(attrs', simple))
              /\ Renderers(InitExtensions(last'.nav, hasExtensions', extensions')) = after]_vars

\* init_app has replaced a renderer registered under "simple" and kept the
\* default renderer registered before it.
C8_Witness ==
    /\ last.op = "init_app"
    /\ regHist["simple"].first = RendererA
    /\ regHist[NoneId].first = TripleRenderer
    /\ Renderers(extensions)["simple"] = simple
    /\ Renderers(extensions)[NoneId] = TripleRenderer

-----------------------------------------------------------------------------
(* Properties of the extension object (SpecNav) *)

\* C9, as claimed, and read in the code's favour about the object under
\* 'nav' (it may be the registry or the Nav that holds it): right after
\* init_app the registry stored under 'nav' is a fresh one, it has no entry,
\* and it is the registry the templates see as nav.
C9_FreshRegistry ==
    last.op = "init_app"
        => /\ "nav" \in DOMAIN extensions
           /\ extensions["nav"] \in {RegistryRef(last.nav), NavRef(last.nav)}
           /\ template_globals["nav"] = RegistryRef(last.nav)
           /\ elems[last.nav] = ElementRegistry__init__

\* C9, amended: init_app creates app.extensions when the attribute is absent
\* and keeps the entries of other extensions, stores the Nav object itself
\* under 'nav', exposes to the templates as nav the registry that Nav has had
\* since its construction, with the entries it holds, and a template's
\* nav.<id> goes through that registry's __getitem__: it gives the element
\* registered under the id, the result of a fresh call of a registered
\* factory, or KeyError for an id without element.
C9_Attach ==
    [][/\ last'.op = "init_app"
          => (/\ hasExtensions'
              /\ DOMAIN extensions' = DOMAIN extensions \cup {"nav", "nav_renderers"}
              /\ \A k \in DOMAIN extensions \ {"nav", "nav_renderers"} :
                    extensions'[k] = extensions[k]
              /\ ~hasExtensions => DOMAIN extensions' = {"nav", "nav_renderers"}
              /\ extensions'["nav"] = NavRef(last'.nav)
              /\ template_globals'["nav"] = RegistryRef(last'.nav)
              /\ elems' = elems)
       /\ last'.op = "template_access"
          => LET n == template_globals["nav"].owner
                 v == lastSet[n][last'.key]
             IN  /\ last'.nav = n
                 /\ extensions["nav"] = NavRef(n)
                 /\ v = Absent => last'.exc = "KeyError"
                 /\ v \in PlainElems => (last'.exc = NoExc /\ last'.ret = v)
                 /\ callable(v)
                       => (/\ last'.exc = NoExc
                           /\ last'.ret = FactoryResult(v.name, calls[v.name])
                           /\ calls'[v.name] = calls[v.name] + 1)]_vars

\* On an application that had another extension, a template read through
\* nav.<id> an element of the second Nav, the one attached, while the first
\* Nav holds elements too.
C9_Witness ==
    /\ last.op = "template_access"
    /\ last.nav = "nav2"
    /\ last.ret = Obj("link")
    /\ "other" \in DOMAIN extensions
    /\ extensions["nav"] = NavRef("nav2")
    /\ Len(elems["nav1"]) > 0

====
